---- MODULE Spec2Model ----
(***************************************************************************)
(* State-machine model of the GPU node (ironknow/fawap-gpu-node):          *)
(*   src/src/main.py             lifespan, push handler, background loops  *)
(*   src/src/webrtc_server.py    WebRTCServer registry, ProcessedVideoTrack*)
(*   src/src/signaling_client.py SignalingClient                           *)
(*   src/src/swap_engine.py      SwapEngine.swap_face                      *)
(*   src/src/frame_processor.py  FrameProcessor pre/postprocess            *)
(*   src/src/config.py           Config                                    *)
(* Every coroutine is cut at its awaits: one action runs from one          *)
(* suspension point to the next, as the asyncio event loop runs it.        *)
(***************************************************************************)
EXTENDS Integers, Sequences, FiniteSets, TLC

\* ------------------------------------------------------------------ bounds
\* Peer connections ever constructed (object identities 1..MaxPcs).
MaxPcs == 2
\* ProcessedVideoTrack objects ever constructed.
MaxTracks == 2
\* Frames one track takes from its source.
MaxFrames == 3

\* ------------------------------------------------ configuration (config.py)
max_sessions == 1
idle_timeout == 300
health_check_interval == 30

\* ------------------------------------------------------------------ values
PcIds == 1..MaxPcs
TrackIds == 1..MaxTracks
SessionIds == {"s1"}
\* offer_data / offer without a "session_id" key
NoId == "None"
\* the default of offer_data.get("session_id", "unknown")
Unknown == "unknown"
\* what a POST /signaling/offer body, or a polled offer, can hold
OfferData == [offer : BOOLEAN, session_id : SessionIds \cup {NoId}]
NoRequest == [offer |-> FALSE, session_id |-> "-"]
\* a response of POST /signaling/offer; req_id is the session_id of the request
\* it answers
NoResponse == [status |-> 0, answer |-> 0, session_id |-> "-", req_id |-> "-"]
Error500 == [status |-> 500, answer |-> 0, session_id |-> "-", req_id |-> "-"]
\* RTCPeerConnection.connectionState ("none": not constructed yet).  aiortc's
\* "connecting" is folded into "new": the code compares the state only with
\* "connected", "failed" and "closed".
NonTerminal == {"new", "connected"}
NoOrigin == [path |-> "-", session_id |-> "-"]

\* ---------------------------------------------------------- frame values
\* An ndarray: ch channels, n samples in all, px the sample value; k tells an
\* array from None and from an exception raised in its place.
FrameSamples == 12
Image(ch, n, px) == [k |-> "array", ch |-> ch, n |-> n, px |-> px]
NoneImage == [k |-> "None", ch |-> 0, n |-> 0, px |-> 0]
RaiseImage == [k |-> "raise", ch |-> 0, n |-> 0, px |-> 0]
\* np.zeros((480, 640, 3), dtype=np.uint8)
Black == Image(3, 480 * 640 * 3, 0)
\* pts and time_base of a VideoFrame that has none
NoPts == -1
NoTimeBase == "None"
\* The VideoFrames the source track delivers.
Frames == {[pts |-> 0, time_base |-> "1/90000", px |-> 7],
           [pts |-> 3000, time_base |-> "1/90000", px |-> 255]}
NoFrame == [pts |-> NoPts, time_base |-> NoTimeBase, px |-> 0]
\* An output VideoFrame, and the one standing for an exception leaving recv
NoOutput == [pts |-> NoPts, time_base |-> NoTimeBase, img |-> NoneImage]
Raised == [pts |-> NoPts, time_base |-> NoTimeBase, img |-> RaiseImage]
\* Detected faces; source_face = None is NoFace.
Faces == {[id |-> 1, det_score |-> 6], [id |-> 2, det_score |-> 9]}
NoFace == [id |-> 0, det_score |-> 0]
\* What detect_faces can do on one frame: return a list of faces, or raise.
Detections == [raised : {FALSE},
               faces : {<<>>} \cup {<<f>> : f \in Faces}
                         \cup {<<fg[1], fg[2]>> : fg \in {x \in Faces \X Faces : x[1] # x[2]}}]
              \cup {[raised |-> TRUE, faces |-> <<>>]}
\* What the detect_faces call inside swap_face can do: swap_face reads only
\* whether it raised and whether it found a face.
TargetDetections == {d \in Detections : Len(d.faces) <= 1 /\ (d.faces = <<>> \/ d.faces[1].id = 1)}
\* the outcome of a detect_faces call that is not made
NotCalled == [raised |-> FALSE, faces |-> <<>>]
\* What swapper.get can do: return a picture (in range or not), an empty
\* array or None, or raise.
SwapResults == {Image(3, FrameSamples, 90), Image(3, FrameSamples, 300),
                Image(3, 0, 0), NoneImage, RaiseImage}
NoTrack == [pc |-> 0, source_face |-> NoFace, frame_count |-> 0, taken |-> 0]
NoRun == [failed |-> 0, passed |-> 0]
\* The methods of SignalingClient that talk to the orchestrator.
Methods == {"register_node", "send_health_update", "receive_offer", "send_answer"}
NoCall == [method |-> "-", at |-> "-", requested |-> FALSE, result |-> "-"]
\* health.served before any GET /health
NotServed == -1
\* health.prev before the second report is built
NoReport == -1
NoLast == [track |-> 0, frame |-> NoFrame, out |-> NoOutput, swap |-> "-", detect |-> 0,
           found |-> 0, faces |-> <<>>]

VARIABLES
    phase,            \* position of lifespan(): starting, running, close_all, stopping, down, aborted
    webrtc_server,    \* main.webrtc_server is not None
    orchestrator_url, \* config.orchestrator_url is set
    client_session,   \* SignalingClient.session is not None
    registered,       \* outcome of register_node at startup
    swapper,          \* SwapEngine.swapper is not None (the InsightFace models loaded)
    pcs,              \* WebRTCServer.pcs
    nextPc,           \* identity of the next RTCPeerConnection object
    connectionState,  \* pc.connectionState
    localDescription, \* pc.localDescription is set
    cbPending,        \* on_connectionstatechange handlers scheduled, not yet run
    cbClosing,        \* on_connectionstatechange handlers suspended in await pc.close()
    offer_of,         \* the offer each pc was created for: ingress path, session_id
    push,             \* the POST /signaling/offer request being handled
    response,         \* the last response of POST /signaling/offer, with its request
    poll,             \* position and locals of signaling_polling_task
    answers,          \* POST /nodes/{id}/answers requests issued, in order
    closer,           \* the set iterator of close_all
    tracks,           \* the ProcessedVideoTrack objects: their pc, source_face, frame_count,
                      \* and the frames taken from their source track
    nextTrack,        \* identity of the next ProcessedVideoTrack object
    run,              \* per track: the current run of frames whose swap failed, and its outputs
    last,             \* the last recv call: its track, input frame, output frame, what swap did,
                      \* whether the detector ran, how many faces it found and which
    health,           \* position of health_reporting_task, the report it built, and the
                      \* active_sessions GET /health returned last
    idle,             \* per pc: seconds since its last processed frame
    call              \* the last call of a SignalingClient method made from outside the
                      \* background tasks: the method, the phase it was made in, whether a
                      \* request was issued, and what it returned

vars == <<phase, webrtc_server, orchestrator_url, client_session, registered, swapper,
          pcs, nextPc, connectionState, localDescription, cbPending, cbClosing,
          offer_of, push, response, poll, answers, closer,
          tracks, nextTrack, run, last, health, idle, call>>

lifeVars == <<phase, webrtc_server, orchestrator_url, client_session, registered,
              swapper, closer, call>>
regVars == <<pcs, nextPc, connectionState, localDescription, cbPending, cbClosing,
             offer_of>>
pipeVars == <<tracks, nextTrack, run, last>>
healthVars == <<health, idle>>

\* -------------------------------------------------------------- registry
\* Sessions in Negotiating or Connected state: pcs of the registry whose
\* transport is not failed or closed.
NonTerminalSessions == {p \in pcs : connectionState[p] \in NonTerminal}

\* A variant of get_active_connections that counts every pc of the registry.
get_registered_connections == Cardinality(pcs)

\* WebRTCServer.get_active_connections
get_active_connections == Cardinality({p \in pcs : connectionState[p] = "connected"})

\* WebRTCServer.create_peer_connection, called by handle_offer:
\* RTCPeerConnection() and self.pcs.add(pc).  No capacity
\* check is made.
create_peer_connection(path, sid) ==
    /\ nextPc <= MaxPcs
    /\ pcs' = pcs \cup {nextPc}
    /\ nextPc' = nextPc + 1
    /\ connectionState' = [connectionState EXCEPT ![nextPc] = "new"]
    /\ offer_of' = [offer_of EXCEPT ![nextPc] = [path |-> path, session_id |-> sid]]
    /\ UNCHANGED <<localDescription, cbPending, cbClosing>>

\* The await that follows position pc inside handle_offer.
NextAwait(pc) ==
    CASE pc = "setRemote" -> "createAnswer"
      [] pc = "createAnswer" -> "setLocal"
      [] OTHER -> "done"

\* RTCPeerConnection.close(): no-op when already closed, else the state
\* becomes "closed" and a connectionstatechange event is emitted.
pc_close(p) ==
    IF connectionState[p] = "closed"
    THEN UNCHANGED <<connectionState, cbPending>>
    ELSE /\ connectionState' = [connectionState EXCEPT ![p] = "closed"]
         /\ cbPending' = [cbPending EXCEPT ![p] = @ + 1]

\* -------------------------------------------------------- signaling client
\* A variant of client_ready that looks at the URL only.
client_ready_url_only == orchestrator_url

\* The test every method of SignalingClient starts with (lines 54, 83, 101,
\* 126), negated: there is an HTTP session and an orchestrator URL.
client_ready == client_session /\ orchestrator_url

\* What a method returns when it gives up or its request fails.
failure_value(method) == IF method = "receive_offer" THEN "None" ELSE "False"

\* What a method returns when its request is answered with status 200 (and,
\* for receive_offer, a non-empty body).
success_value(method) == IF method = "receive_offer" THEN "offer" ELSE "True"

\* ---------------------------------------------------------------- lifespan
Init ==
    /\ phase = "starting"
    /\ webrtc_server = FALSE
    /\ orchestrator_url \in BOOLEAN
    /\ client_session = FALSE
    /\ registered = "no"
    /\ pcs = {}
    /\ nextPc = 1
    /\ connectionState = [p \in PcIds |-> "none"]
    /\ localDescription = [p \in PcIds |-> FALSE]
    /\ cbPending = [p \in PcIds |-> 0]
    /\ cbClosing = [p \in PcIds |-> 0]
    /\ offer_of = [p \in PcIds |-> NoOrigin]
    /\ push = [pc |-> "idle", p |-> 0, offer_data |-> NoRequest]
    /\ response = NoResponse
    /\ poll = [pc |-> "unstarted", p |-> 0, session_id |-> "-"]
    /\ answers = <<>>
    /\ closer = [used |-> 0, todo |-> {}, init |-> {}]
    /\ swapper = FALSE
    /\ tracks = [t \in TrackIds |-> NoTrack]
    /\ nextTrack = 1
    /\ run = [t \in TrackIds |-> NoRun]
    /\ last = NoLast
    /\ health = [pc |-> "unstarted", active_sessions |-> 0, served |-> NotServed,
                 prev |-> NoReport, result |-> "-"]
    /\ idle = [p \in PcIds |-> 0]
    /\ call = NoCall

\* A variant of after_register in which a failed registration ends startup.
after_register_required(reg) ==
    IF orchestrator_url /\ reg = "failed" THEN "aborted" ELSE "running"

\* lifespan() lines 69-81: the return value of register_node is dropped, the
\* background tasks are created and the application serves.
after_register(reg) == "running"

\* lifespan() up to its yield: the swap engine loads its models (sw: the
\* InsightFace swapper is there, else the fallback), the server and the
\* signaling client are built, start() opens the HTTP session when an
\* orchestrator is configured, register_node is awaited once (its result is
\* ignored), and the two background tasks are created.
Startup(reg, sw) ==
    /\ phase = "starting"
    /\ phase' = after_register(reg)
    /\ webrtc_server' = TRUE
    /\ client_session' = orchestrator_url
    /\ registered' = IF orchestrator_url THEN reg ELSE "skipped"
    /\ swapper' = sw
    /\ poll' = [poll EXCEPT !.pc = "sleep"]
    /\ health' = [health EXCEPT !.pc = "sleep"]
    /\ UNCHANGED <<orchestrator_url, closer, call, regVars, push, response, answers,
                   pipeVars, idle>>

\* close_all from one `next` of the iterator over self.pcs to the next
\* suspension.  `await pc.close()` of a closed pc returns without suspending,
\* so closed pcs are passed over; the loop suspends in the close() of a pc
\* that is not closed, or ends, and then self.pcs.clear() runs and stop()
\* begins.  A pc added to the set after the loop began (not in closer.init)
\* may be met by the iterator or not.
close_all_step(init, todo) ==
    LET open == {p \in (todo \cap pcs) \cup (pcs \ init) : connectionState[p] # "closed"}
        mustVisit == {p \in todo \cap pcs : connectionState[p] # "closed"}
    IN \/ /\ mustVisit = {}
          /\ pcs' = {}
          /\ phase' = IF client_session THEN "stopping" ELSE "down"
          /\ closer' = [used |-> Cardinality(init), todo |-> {}, init |-> init]
          /\ UNCHANGED <<connectionState, cbPending>>
       \/ \E p \in open :
          /\ pc_close(p)
          /\ phase' = "close_all"
          /\ closer' = [used |-> Cardinality(init), todo |-> todo \ {p}, init |-> init \cup {p}]
          /\ UNCHANGED pcs

\* lifespan() after its yield: close_all() starts the loop over self.pcs and
\* runs to its first suspension.
ShutdownBegin ==
    /\ phase = "running"
    /\ close_all_step(pcs, pcs)
    /\ UNCHANGED <<webrtc_server, orchestrator_url, client_session, registered, swapper,
                   call, nextPc, localDescription, cbClosing, offer_of,
                   push, response, poll, answers, pipeVars, healthVars>>

\* close_all resumed after `await pc.close()`: the set iterator raises
\* RuntimeError when the set changed size since the loop began; the exception
\* leaves lifespan() and signaling_client.stop() is never reached.
CloseAllStep ==
    /\ phase = "close_all"
    /\ IF Cardinality(pcs) # closer.used
       THEN /\ phase' = "aborted"
            /\ UNCHANGED <<closer, pcs, connectionState, cbPending>>
       ELSE close_all_step(closer.init, closer.todo)
    /\ UNCHANGED <<webrtc_server, orchestrator_url, client_session, registered, swapper,
                   call, nextPc, localDescription, cbClosing, offer_of,
                   push, response, poll, answers, pipeVars, healthVars>>

\* SignalingClient.stop() after `await self.session.close()`.
StopDone ==
    /\ phase = "stopping"
    /\ phase' = "down"
    /\ client_session' = FALSE
    /\ UNCHANGED <<webrtc_server, orchestrator_url, registered, swapper, closer, call,
                   regVars, push, response, poll, answers, pipeVars, healthVars>>

\* A method of SignalingClient called on the client as it is, up to its first
\* suspension: it returns its failure value at once when the client is not
\* ready, else its request is issued.
ClientCall(method) ==
    /\ call.result # "pending"
    /\ call' = IF client_ready
               THEN [method |-> method, at |-> phase, requested |-> TRUE,
                     result |-> "pending"]
               ELSE [method |-> method, at |-> phase, requested |-> FALSE,
                     result |-> failure_value(method)]
    /\ UNCHANGED <<phase, webrtc_server, orchestrator_url, client_session, registered,
                   swapper, closer, regVars, push, response, poll, answers, pipeVars,
                   healthVars>>

\* The request of the method completes: status 200 (ok), or another status,
\* an empty body or an exception the method catches (not ok).
ClientCallDone(ok) ==
    /\ call.result = "pending"
    /\ call' = [call EXCEPT !.result = IF ok THEN success_value(call.method)
                                       ELSE failure_value(call.method)]
    /\ UNCHANGED <<phase, webrtc_server, orchestrator_url, client_session, registered,
                   swapper, closer, regVars, push, response, poll, answers, pipeVars,
                   healthVars>>

\* SignalingClient.stop() called once more after lifespan() has ended: with a
\* session it suspends in session.close(), without one it does nothing.
ClientStop ==
    /\ phase = "down"
    /\ call.result # "pending"
    /\ call' = [method |-> "stop", at |-> phase, requested |-> FALSE, result |-> "None"]
    /\ phase' = IF client_session THEN "stopping" ELSE phase
    /\ UNCHANGED <<webrtc_server, orchestrator_url, client_session, registered,
                   swapper, closer, regVars, push, response, poll, answers, pipeVars,
                   healthVars>>

\* --------------------------------------------------------------- push path
\* A variant of offer_response that never echoes the request's session_id.
offer_response_unknown(answer_sdp, offer_data) ==
    [status |-> 200, answer |-> answer_sdp, session_id |-> Unknown,
     req_id |-> offer_data.session_id]

\* The body handle_signaling_offer returns: the answer and
\* offer_data.get("session_id", "unknown").
offer_response(answer_sdp, offer_data) ==
    [status |-> 200, answer |-> answer_sdp,
     session_id |-> IF offer_data.session_id = NoId THEN Unknown
                    ELSE offer_data.session_id,
     req_id |-> offer_data.session_id]

\* handle_signaling_offer up to its first suspension.  Every HTTPException
\* raised inside the try is caught by `except Exception` and re-raised as
\* status 500.
PushOffer(offer_data) ==
    /\ phase = "running"
    /\ push.pc = "idle"
    /\ IF (~webrtc_server) \/ ~offer_data.offer
       THEN /\ response' = Error500
            /\ UNCHANGED <<push, regVars>>
       ELSE /\ create_peer_connection("push", offer_data.session_id)
            /\ push' = [pc |-> "setRemote", p |-> nextPc, offer_data |-> offer_data]
            /\ UNCHANGED response
    /\ UNCHANGED <<lifeVars, poll, answers, pipeVars, healthVars>>

\* handle_signaling_offer resumed from one await of handle_offer.  A closed
\* pc refuses every negotiation call; any of them may raise.
PushNegotiate(ok) ==
    /\ push.pc \in {"setRemote", "createAnswer", "setLocal"}
    /\ ok => connectionState[push.p] # "closed"
    /\ IF ~ok
       THEN /\ response' = Error500
            /\ push' = [pc |-> "idle", p |-> 0, offer_data |-> NoRequest]
            /\ UNCHANGED localDescription
       ELSE IF NextAwait(push.pc) # "done"
       THEN /\ push' = [push EXCEPT !.pc = NextAwait(push.pc)]
            /\ UNCHANGED <<response, localDescription>>
       ELSE /\ localDescription' = [localDescription EXCEPT ![push.p] = TRUE]
            /\ response' = offer_response(push.p, push.offer_data)
            /\ push' = [pc |-> "idle", p |-> 0, offer_data |-> NoRequest]
    /\ UNCHANGED <<lifeVars, pcs, nextPc, connectionState, cbPending, cbClosing,
                   offer_of, poll, answers, pipeVars, healthVars>>

\* --------------------------------------------------------------- pull path
\* A variant of answer_body that sends no session_id.
answer_body_untagged(answer_sdp, session_id) ==
    [session_id |-> NoId, answer |-> answer_sdp]

\* The JSON body send_answer posts.
answer_body(answer_sdp, session_id) ==
    [session_id |-> session_id, answer |-> answer_sdp]

\* signaling_polling_task after asyncio.sleep(1): receive_offer returns None
\* at once without a session or URL, else its GET is in flight.
PollWake ==
    /\ poll.pc = "sleep"
    /\ poll' = IF client_ready
               THEN [poll EXCEPT !.pc = "receive"]
               ELSE poll
    /\ UNCHANGED <<lifeVars, regVars, push, response, answers, pipeVars, healthVars>>

\* receive_offer returns None (no offer, status # 200, network error): the
\* loop sleeps again.
PollNothing ==
    /\ poll.pc = "receive"
    /\ poll' = [poll EXCEPT !.pc = "sleep"]
    /\ UNCHANGED <<lifeVars, regVars, push, response, answers, pipeVars, healthVars>>

\* receive_offer returns an offer: handle_offer is entered when the offer
\* holds an SDP.
PollOffer(offer) ==
    /\ poll.pc = "receive"
    /\ IF webrtc_server /\ offer.offer
       THEN /\ create_peer_connection("pull", offer.session_id)
            /\ poll' = [pc |-> "setRemote", p |-> nextPc, session_id |-> offer.session_id]
       ELSE /\ poll' = [poll EXCEPT !.pc = "sleep"]
            /\ UNCHANGED regVars
    /\ UNCHANGED <<lifeVars, push, response, answers, pipeVars, healthVars>>

\* A variant of poll_next_cycle in which the loop ends.
poll_stopped == [pc |-> "stopped", p |-> 0, session_id |-> "-"]

\* signaling_polling_task back at the top of `while True`, in
\* asyncio.sleep(1): where `except Exception` (main.py 196) leaves it too.
poll_next_cycle == [pc |-> "sleep", p |-> 0, session_id |-> "-"]

\* signaling_polling_task resumed from one await of handle_offer.  After the
\* last one send_answer is called: it returns False at once without a session
\* or URL, else it issues POST /answers {session_id, answer}.
PollNegotiate(ok) ==
    /\ poll.pc \in {"setRemote", "createAnswer", "setLocal"}
    /\ ok => connectionState[poll.p] # "closed"
    /\ IF ~ok
       THEN /\ poll' = poll_next_cycle
            /\ UNCHANGED <<localDescription, answers>>
       ELSE IF NextAwait(poll.pc) # "done"
       THEN /\ poll' = [poll EXCEPT !.pc = NextAwait(poll.pc)]
            /\ UNCHANGED <<localDescription, answers>>
       ELSE /\ localDescription' = [localDescription EXCEPT ![poll.p] = TRUE]
            /\ IF client_ready
               THEN /\ answers' = Append(answers, answer_body(poll.p, poll.session_id))
                    /\ poll' = [poll EXCEPT !.pc = "send"]
               ELSE /\ poll' = [pc |-> "sleep", p |-> 0, session_id |-> "-"]
                    /\ UNCHANGED answers
    /\ UNCHANGED <<lifeVars, pcs, nextPc, connectionState, cbPending, cbClosing,
                   offer_of, push, response, pipeVars, healthVars>>

\* send_answer's POST completes (status 200, another status, or an error
\* that send_answer catches): the loop sleeps again.
PollSent ==
    /\ poll.pc = "send"
    /\ poll' = [pc |-> "sleep", p |-> 0, session_id |-> "-"]
    /\ UNCHANGED <<lifeVars, regVars, push, response, answers, pipeVars, healthVars>>

\* --------------------------------------------------------------- transport
\* A variant of transport_next in which a failed transport reconnects.
transport_next_restart(s) ==
    IF s = "new" THEN {"connected", "failed"}
    ELSE IF s = "connected" THEN {"failed"}
    ELSE IF s = "failed" THEN {"connected"}
    ELSE {}

\* The states the transport itself can take a pc to from state s; "closed"
\* is reached through close() only.
transport_next(s) ==
    IF s = "new" THEN {"connected", "failed"}
    ELSE IF s = "connected" THEN {"failed"}
    ELSE {}

\* The transport of a negotiated pc changes connectionState and emits
\* connectionstatechange.
TransportChange(p, s) ==
    /\ p \in 1..(nextPc - 1)
    /\ localDescription[p]
    /\ s \in transport_next(connectionState[p])
    /\ connectionState' = [connectionState EXCEPT ![p] = s]
    /\ cbPending' = [cbPending EXCEPT ![p] = @ + 1]
    /\ UNCHANGED <<lifeVars, pcs, nextPc, localDescription, cbClosing, offer_of,
                   push, response, poll, answers, pipeVars, healthVars>>

\* A variant of discard in which removing an absent pc removes another one.
discard_some(p) ==
    IF p \in pcs \/ pcs = {} THEN pcs \ {p} ELSE pcs \ {CHOOSE q \in pcs : TRUE}

\* A variant of discard that leaves the registry as it is.
discard_nothing(p) == pcs

\* self.pcs.discard(pc): the registry without pc, unchanged when pc is absent.
discard(p) == pcs \ {p}

\* on_connectionstatechange runs: on "failed" it calls pc.close() and
\* suspends in it; on "closed" close() returns at once and the pc is
\* discarded; on any other state it does nothing.
OnConnectionStateChange(p) ==
    /\ cbPending[p] > 0
    /\ IF connectionState[p] = "failed"
       THEN /\ connectionState' = [connectionState EXCEPT ![p] = "closed"]
            /\ cbPending' = cbPending
            /\ cbClosing' = [cbClosing EXCEPT ![p] = @ + 1]
            /\ UNCHANGED pcs
       ELSE /\ cbPending' = [cbPending EXCEPT ![p] = @ - 1]
            /\ pcs' = IF connectionState[p] = "closed" THEN discard(p) ELSE pcs
            /\ UNCHANGED <<connectionState, cbClosing>>
    /\ UNCHANGED <<lifeVars, nextPc, localDescription, offer_of,
                   push, response, poll, answers, pipeVars, healthVars>>

\* on_connectionstatechange resumed after `await pc.close()`:
\* self.pcs.discard(pc).
OnConnectionStateChangeResume(p) ==
    /\ cbClosing[p] > 0
    /\ cbClosing' = [cbClosing EXCEPT ![p] = @ - 1]
    /\ pcs' = discard(p)
    /\ UNCHANGED <<lifeVars, nextPc, connectionState, localDescription, cbPending,
                   offer_of, push, response, poll, answers, pipeVars, healthVars>>


\* ---------------------------------------------------------- frame pipeline
\* on_track: a video track gets a new ProcessedVideoTrack, added to the pc;
\* any other kind is only logged.  The event is emitted while
\* setRemoteDescription runs.
OnTrack(p, kind) ==
    /\ \/ push.p = p /\ push.pc = "setRemote"
       \/ poll.p = p /\ poll.pc = "setRemote"
    /\ connectionState[p] # "closed"
    /\ IF kind = "video"
       THEN /\ nextTrack <= MaxTracks
            /\ tracks' = [tracks EXCEPT ![nextTrack] =
                             [pc |-> p, source_face |-> NoFace, frame_count |-> 0,
                              taken |-> 0]]
            /\ nextTrack' = nextTrack + 1
       ELSE UNCHANGED <<tracks, nextTrack>>
    /\ UNCHANGED <<lifeVars, regVars, push, response, poll, answers, run, last,
                   healthVars>>

\* VideoFrame.to_ndarray(format="bgr24"): three channels whatever the source
\* format.
to_ndarray(frame) == Image(3, FrameSamples, frame.px)

\* FrameProcessor.preprocess_frame with target_size None (as main builds it):
\* a gray (ch = 1) or BGRA (ch = 4) array becomes BGR.
preprocess_frame(img) ==
    IF img.ch = 1 \/ img.ch = 4
    THEN [img EXCEPT !.ch = 3, !.n = (img.n \div img.ch) * 3]
    ELSE img

\* np.clip(frame, 0, 255) of one sample
clip(v) == IF v < 0 THEN 0 ELSE IF v > 255 THEN 255 ELSE v

\* FrameProcessor.postprocess_frame
postprocess_frame(img) ==
    IF img.k = "None" \/ img.n = 0 THEN Black ELSE [img EXCEPT !.px = clip(@)]

\* A variant of detects that never runs the detector.
detects_never(source_face) == FALSE

\* A variant of detects that runs the detector on every frame.
detects_every_frame(source_face) == TRUE

\* recv line 50: the detector runs only while no source face is stored.
detects(source_face) == source_face = NoFace

\* A variant of capture that stores a placeholder when no face is found.
capture_placeholder(source_face, faces) ==
    IF source_face # NoFace THEN source_face
    ELSE IF faces # <<>> THEN faces[1]
    ELSE CHOOSE f \in Faces : TRUE

\* recv lines 50-54: the source face after the capture step, given what
\* detect_faces returned.
capture(source_face, faces) ==
    IF detects(source_face) /\ faces # <<>> THEN faces[1] ELSE source_face

\* A variant of swap_face that returns None when swapper.get raises.
swap_face_none_on_error(img, source_face, tdet, get) ==
    IF ~swapper THEN img
    ELSE IF tdet.raised THEN RaiseImage
    ELSE IF tdet.faces = <<>> THEN img
    ELSE IF get.k = "raise" THEN NoneImage
    ELSE get

\* SwapEngine.swap_face(source_frame=img, target_frame=img, source_face,
\* target_face=None): tdet is what its own detect_faces call does, get what
\* swapper.get does.  RaiseImage: the call raises.
swap_face(img, source_face, tdet, get) ==
    IF ~swapper THEN img
    ELSE IF tdet.raised THEN RaiseImage
    ELSE IF tdet.faces = <<>> THEN img
    ELSE IF get.k = "raise" THEN img
    ELSE get

\* The swap collaborator failed on this call: swap_face raised, or
\* swapper.get raised inside it.
swap_failed(tdet, get) ==
    swapper /\ (tdet.raised \/ (tdet.faces # <<>> /\ get.k = "raise"))

\* A variant of new_frame that leaves the time base VideoFrame.from_ndarray
\* gives.
new_frame_without_time_base(img, frame) ==
    [pts |-> frame.pts, time_base |-> NoTimeBase, img |-> img]

\* recv lines 72-74: VideoFrame.from_ndarray gives a frame without pts and
\* time_base; both are copied from the input frame.
new_frame(img, frame) ==
    [pts |-> frame.pts, time_base |-> frame.time_base, img |-> img]

\* ProcessedVideoTrack.recv on track t, from the frame the source track
\* delivers to the frame returned (or the exception raised).
Recv(t, frame, det, tdet, get) ==
    /\ t \in 1..(nextTrack - 1)
    /\ connectionState[tracks[t].pc] = "connected"
    /\ tracks[t].taken < MaxFrames
    /\ LET img1 == preprocess_frame(to_ndarray(frame))
           detecting == detects(tracks[t].source_face)
           face == capture(tracks[t].source_face, det.faces)
           called == face # NoFace
           swapped == IF called THEN swap_face(img1, face, tdet, get) ELSE img1
           img2 == IF swapped.k = "raise" THEN img1 ELSE swapped
           failed == called /\ swap_failed(tdet, get)
           out == new_frame(postprocess_frame(img2), frame)
       IN \* a collaborator that is not called has no outcome to choose
          /\ (~detecting) => det = NotCalled
          /\ (~called \/ ~swapper \/ (detecting /\ det.raised)) => tdet = NotCalled
          /\ (tdet = NotCalled \/ tdet.raised \/ tdet.faces = <<>>) => get = NoneImage
          /\ IF detecting /\ det.raised
             THEN /\ last' = [track |-> t, frame |-> frame, out |-> Raised,
                              swap |-> "-", detect |-> 1, found |-> 0, faces |-> <<>>]
                  /\ tracks' = [tracks EXCEPT ![t].taken = @ + 1]
                  /\ UNCHANGED <<run, idle>>
             ELSE /\ tracks' = [tracks EXCEPT ![t].source_face = face,
                                               ![t].frame_count = @ + 1,
                                               ![t].taken = @ + 1]
                  /\ last' = [track |-> t, frame |-> frame, out |-> out,
                              swap |-> IF ~called THEN "skipped"
                                       ELSE IF failed THEN "failed" ELSE "returned",
                              detect |-> IF detecting THEN 1 ELSE 0,
                              found |-> IF detecting THEN Len(det.faces) ELSE 0,
                              faces |-> det.faces]
                  /\ run' = [run EXCEPT ![t] =
                               IF failed
                               THEN [failed |-> @.failed + 1,
                                     passed |-> @.passed +
                                        (IF out.img = postprocess_frame(img1) THEN 1 ELSE 0)]
                               ELSE NoRun]
                  /\ idle' = [idle EXCEPT ![tracks[t].pc] = 0]
    /\ UNCHANGED <<lifeVars, regVars, push, response, poll, answers, nextTrack, health>>

\* ---------------------------------------------------------- health reports
\* Seconds a session has been idle after d more seconds, counted up to the
\* first value past idle_timeout.
elapsed(i, d) ==
    IF i + d > idle_timeout + health_check_interval
    THEN idle_timeout + health_check_interval
    ELSE i + d

\* A variant of health_data that sends the report of a failed dispatch again.
health_data_queued ==
    IF health.result = "failed" THEN health.active_sessions ELSE get_active_connections

\* health_reporting_task lines 171-175: the active_sessions of the report
\* built in this cycle.
health_data == get_active_connections

\* A variant of health_next_cycle in which a failed dispatch ends the loop.
health_stopped(ok) == IF ok THEN "sleep" ELSE "stopped"

\* health_reporting_task back at the top of `while True`, in
\* asyncio.sleep(health_check_interval), whatever send_health_update returned.
health_next_cycle(ok) == "sleep"

\* health_reporting_task after asyncio.sleep(health_check_interval): with an
\* orchestrator URL it builds health_data from get_active_connections() and
\* calls send_health_update, which returns False at once without a session.
\* No session is looked at for idleness.  health.prev keeps the report of the
\* cycle before, health.result what the last finished dispatch returned.
HealthWake ==
    /\ health.pc = "sleep"
    /\ idle' = [p \in PcIds |-> IF p \in pcs THEN elapsed(idle[p], health_check_interval)
                                ELSE idle[p]]
    /\ health' = IF orchestrator_url
                 THEN [health EXCEPT !.pc = IF client_ready THEN "post"
                                            ELSE health_next_cycle(FALSE),
                                     !.active_sessions = health_data,
                                     !.prev = health.active_sessions,
                                     !.result = IF client_ready THEN @ ELSE "failed"]
                 ELSE health
    /\ UNCHANGED <<lifeVars, regVars, push, response, poll, answers, pipeVars>>

\* health_check (GET /health): active_sessions of the response is
\* get_active_connections(), 0 without a server.
HealthCheck ==
    /\ phase = "running"
    /\ health' = [health EXCEPT !.served = IF webrtc_server THEN get_active_connections
                                           ELSE 0]
    /\ UNCHANGED <<lifeVars, regVars, push, response, poll, answers, pipeVars, idle>>

\* send_health_update's POST completes: status 200 (ok), or another status
\* or an exception it catches (not ok); the result is dropped by the task.
HealthSent(ok) ==
    /\ health.pc = "post"
    /\ health' = [health EXCEPT !.pc = health_next_cycle(ok),
                                !.result = IF ok THEN "ok" ELSE "failed"]
    /\ UNCHANGED <<lifeVars, regVars, push, response, poll, answers, pipeVars, idle>>

\* ----------------------------------------------------------- specifications
\* The serving node: both ingress paths, the transport and its callbacks.
Next ==
    \/ \E reg \in {"ok", "failed"} : Startup(reg, TRUE)
    \/ \E d \in OfferData : PushOffer(d)
    \/ \E ok \in BOOLEAN : PushNegotiate(ok)
    \/ PollWake
    \/ PollNothing
    \/ \E d \in OfferData : PollOffer(d)
    \/ \E ok \in BOOLEAN : PollNegotiate(ok)
    \/ PollSent
    \/ \E p \in PcIds, s \in {"connected", "failed"} : TransportChange(p, s)
    \/ \E p \in PcIds : OnConnectionStateChange(p)
    \/ \E p \in PcIds : OnConnectionStateChangeResume(p)

Spec == Init /\ [][Next]_vars

\* The pull path up to the shutdown of the node; transports that change state
\* here fail.
NextShutdown ==
    \/ \E reg \in {"ok", "failed"} : Startup(reg, TRUE)
    \/ ShutdownBegin
    \/ CloseAllStep
    \/ StopDone
    \/ PollWake
    \/ PollNothing
    \/ \E d \in OfferData : PollOffer(d)
    \/ \E ok \in BOOLEAN : PollNegotiate(ok)
    \/ PollSent
    \/ \E p \in PcIds : TransportChange(p, "failed")
    \/ \E p \in PcIds : OnConnectionStateChange(p)
    \/ \E p \in PcIds : OnConnectionStateChangeResume(p)

SpecShutdown == Init /\ [][NextShutdown]_vars

\* The node's first session and the stream of its first video track, frame by
\* frame.
NextPipeline ==
    \/ \E reg \in {"ok", "failed"}, sw \in BOOLEAN : Startup(reg, sw)
    \/ \E d \in OfferData : nextPc = 1 /\ PushOffer(d)
    \/ \E ok \in BOOLEAN : PushNegotiate(ok)
    \/ \E p \in PcIds, kind \in {"video", "audio"} : nextTrack = 1 /\ OnTrack(p, kind)
    \/ \E p \in PcIds, s \in {"connected", "failed"} : TransportChange(p, s)
    \/ \E p \in PcIds : OnConnectionStateChange(p)
    \/ \E p \in PcIds : OnConnectionStateChangeResume(p)
    \/ \E t \in TrackIds, frame \in Frames, det \in Detections, tdet \in TargetDetections,
          get \in SwapResults : Recv(t, frame, det, tdet, get)

SpecPipeline == Init /\ [][NextPipeline]_vars

\* The node's first session with the health loop beside it: time passes, and
\* frames (in which no face is found) arrive or stay away.
NextIdle ==
    \/ \E reg \in {"ok", "failed"} : Startup(reg, TRUE)
    \/ \E d \in OfferData : nextPc = 1 /\ PushOffer(d)
    \/ \E ok \in BOOLEAN : PushNegotiate(ok)
    \/ \E p \in PcIds, kind \in {"video", "audio"} : nextTrack = 1 /\ OnTrack(p, kind)
    \/ \E p \in PcIds, s \in {"connected", "failed"} : TransportChange(p, s)
    \/ \E p \in PcIds : OnConnectionStateChange(p)
    \/ \E p \in PcIds : OnConnectionStateChangeResume(p)
    \/ \E t \in TrackIds, frame \in Frames : Recv(t, frame, NotCalled, NotCalled, NoneImage)
    \/ HealthWake
    \/ \E ok \in BOOLEAN : HealthSent(ok)
    \/ HealthCheck

SpecIdle == Init /\ [][NextIdle]_vars

\* The life of the sessions of the push path, from their creation to the
\* shutdown of the node; every request holds an offer.
NextLifecycle ==
    \/ Startup("ok", TRUE)
    \/ PushOffer([offer |-> TRUE, session_id |-> "s1"])
    \/ \E ok \in BOOLEAN : PushNegotiate(ok)
    \/ \E p \in PcIds, s \in {"connected", "failed"} : TransportChange(p, s)
    \/ \E p \in PcIds : OnConnectionStateChange(p)
    \/ \E p \in PcIds : OnConnectionStateChangeResume(p)
    \/ ShutdownBegin
    \/ CloseAllStep
    \/ StopDone

SpecLifecycle == Init /\ [][NextLifecycle]_vars

\* The same with the event loop's guarantee: a scheduled
\* on_connectionstatechange handler runs, and one suspended in pc.close() is
\* resumed.
SpecLifecycleFair ==
    /\ Init
    /\ [][NextLifecycle]_vars
    /\ \A p \in PcIds : WF_vars(OnConnectionStateChange(p))
    /\ \A p \in PcIds : WF_vars(OnConnectionStateChangeResume(p))

\* The health loop beside the node's first session, with what the event
\* loop and the timeouts of the HTTP client give: the node starts, the sleep
\* ends, and the POST of a report returns or raises.
NextHealth ==
    \/ \E reg \in {"ok", "failed"} : Startup(reg, TRUE)
    \/ nextPc = 1 /\ PushOffer([offer |-> TRUE, session_id |-> "s1"])
    \/ \E ok \in BOOLEAN : PushNegotiate(ok)
    \/ \E p \in PcIds, s \in {"connected", "failed"} : TransportChange(p, s)
    \/ \E p \in PcIds : OnConnectionStateChange(p)
    \/ \E p \in PcIds : OnConnectionStateChangeResume(p)
    \/ HealthWake
    \/ \E ok \in BOOLEAN : HealthSent(ok)

SpecHealthFair ==
    /\ Init
    /\ [][NextHealth]_vars
    /\ WF_vars(\E reg \in {"ok", "failed"} : Startup(reg, TRUE))
    /\ WF_vars(HealthWake)
    /\ WF_vars(\E ok \in BOOLEAN : HealthSent(ok))

\* The node's first session, whose offer may hold several tracks, and the
\* streams of its video tracks; the swapper is not loaded.
NextTracks ==
    \/ Startup("ok", FALSE)
    \/ nextPc = 1 /\ PushOffer([offer |-> TRUE, session_id |-> "s1"])
    \/ \E ok \in BOOLEAN : PushNegotiate(ok)
    \/ \E p \in PcIds, kind \in {"video", "audio"} : OnTrack(p, kind)
    \/ \E p \in PcIds, s \in {"connected", "failed"} : TransportChange(p, s)
    \/ \E p \in PcIds : OnConnectionStateChange(p)
    \/ \E p \in PcIds : OnConnectionStateChangeResume(p)
    \/ \E t \in TrackIds, frame \in Frames, det \in Detections :
          Recv(t, frame, det, NotCalled, NoneImage)

SpecTracks == Init /\ [][NextTracks]_vars

\* The signaling client from its construction to the end of lifespan() and
\* after it: its methods called at any moment, beside the two background tasks
\* that call them; no offer arrives.
NextClient ==
    \/ \E reg \in {"ok", "failed"} : Startup(reg, TRUE)
    \/ ShutdownBegin
    \/ StopDone
    \/ ClientStop
    \/ \E m \in Methods : ClientCall(m)
    \/ \E ok \in BOOLEAN : ClientCallDone(ok)
    \/ PollWake
    \/ PollNothing
    \/ HealthWake
    \/ \E ok \in BOOLEAN : HealthSent(ok)

SpecClient == Init /\ [][NextClient]_vars

\* The node from its startup on, admitting and negotiating the offers of both
\* ingress paths; transports stay as negotiation left them.
NextServe ==
    \/ \E reg \in {"ok", "failed"} : Startup(reg, TRUE)
    \/ \E d \in OfferData : PushOffer(d)
    \/ \E ok \in BOOLEAN : PushNegotiate(ok)
    \/ PollWake
    \/ PollNothing
    \/ \E d \in OfferData : PollOffer(d)
    \/ \E ok \in BOOLEAN : PollNegotiate(ok)
    \/ PollSent

SpecServe == Init /\ [][NextServe]_vars

\* One step of signaling_polling_task.
PollStep ==
    \/ PollWake
    \/ PollNothing
    \/ \E d \in OfferData : PollOffer(d)
    \/ \E ok \in BOOLEAN : PollNegotiate(ok)
    \/ PollSent

\* The pull path alone, with the sessions it creates.
NextPoll ==
    \/ \E reg \in {"ok", "failed"} : Startup(reg, TRUE)
    \/ PollWake
    \/ PollNothing
    \/ \E d \in OfferData : PollOffer(d)
    \/ \E ok \in BOOLEAN : PollNegotiate(ok)
    \/ PollSent
    \/ \E p \in PcIds, s \in {"connected", "failed"} : TransportChange(p, s)
    \/ \E p \in PcIds : OnConnectionStateChange(p)
    \/ \E p \in PcIds : OnConnectionStateChangeResume(p)

\* The same with what the event loop and the timeouts of the HTTP client give:
\* the node starts, the sleep ends, and every request and negotiation call
\* the task waits for returns or raises.
SpecPollFair ==
    /\ Init
    /\ [][NextPoll]_vars
    /\ WF_vars(\E reg \in {"ok", "failed"} : Startup(reg, TRUE))
    /\ WF_vars(PollStep)

\* ------------------------------------------------------------------ claims
\* The pcs constructed so far.
Created == 1..(nextPc - 1)
\* The ingress task is inside handle_offer.
Negotiating(task) == task.pc \in {"setRemote", "createAnswer", "setLocal"}

\* Sessions that are Negotiating or Connected beyond doubt: in the registry,
\* transport neither failed nor closed, and either inside handle_offer now or
\* negotiated to the end.  A pc left behind by a negotiation that raised is
\* not counted.
LiveSessions ==
    {p \in NonTerminalSessions :
        \/ localDescription[p]
        \/ (Negotiating(push) /\ push.p = p)
        \/ (Negotiating(poll) /\ poll.p = p)}

\* C1: the number of sessions in a non-terminal state (Negotiating or
\* Connected) never exceeds max_sessions.
C1_CapacityNeverExceeded == Cardinality(LiveSessions) <= max_sessions

\* C2: while a push-path offer and a pull-path offer are both inside
\* handle_offer, interleaved at its awaits, the number of non-terminal
\* sessions does not exceed max_sessions.
C2_CapacityUnderInterleaving ==
    (Negotiating(push) /\ Negotiating(poll))
        => Cardinality(LiveSessions) <= max_sessions

\* C3: an offer is admitted (a session is created) only when the number of
\* non-terminal sessions is below max_sessions; with max_sessions = 1 a
\* second offer is refused while the first session is still non-terminal.
C3_AdmitOnlyBelowCapacity ==
    [][nextPc' # nextPc => Cardinality(LiveSessions) < max_sessions]_vars

\* C4: a pass of the health loop leaves no connected session in the registry
\* that has had no frame processed for longer than idle_timeout.
C4_IdleSessionsSwept ==
    [][HealthWake
         => \A p \in pcs' : connectionState'[p] = "connected" => idle'[p] <= idle_timeout]_vars

\* C5: once the source face of a track is set, no later step changes it.
C5_SourceFaceStable ==
    [][\A t \in TrackIds :
          tracks[t].source_face # NoFace
              => tracks'[t].source_face = tracks[t].source_face]_vars

\* C5 witness: a frame was processed by a track whose source face was already
\* stored.
C5_Witness ==
    /\ last.track # 0
    /\ last.detect = 0
    /\ last.out # Raised
    /\ tracks[last.track].source_face # NoFace
    /\ tracks[last.track].frame_count >= 2

\* C6: every frame recv returns carries the pts and the time base of the input
\* frame it was made from.
C6_TimestampPassThrough ==
    (last.track # 0 /\ last.out # Raised)
        => /\ last.out.pts = last.frame.pts
           /\ last.out.time_base = last.frame.time_base

\* C6 witness: a frame whose swap result was replaced by the black frame.
C6_Witness ==
    /\ last.track # 0
    /\ last.swap = "returned"
    /\ last.out.img = Black
    /\ last.frame.pts = 3000

\* C7: a frame whose swap fails is still returned, equal to the normalized
\* input; a run of such frames yields as many such outputs; and the step
\* leaves the registry and every connection state as they were.
C7_SwapFailureDegrades ==
    /\ [](last.swap = "failed"
            => /\ last.out # Raised
               /\ last.out.img = postprocess_frame(preprocess_frame(to_ndarray(last.frame))))
    /\ [](\A t \in TrackIds : run[t].passed = run[t].failed)
    /\ [][(tracks' # tracks /\ last'.swap = "failed")
            => (pcs' = pcs /\ connectionState' = connectionState)]_vars

\* C7 witness: MaxFrames consecutive frames of one track, the swap failing on
\* each, the session still connected and registered.
C7_Witness ==
    \E t \in TrackIds :
        /\ run[t].failed = MaxFrames
        /\ run[t].passed = MaxFrames
        /\ tracks[t].pc \in pcs
        /\ connectionState[tracks[t].pc] = "connected"

\* The answers posted for pc p.
AnswersFor(p) == {i \in DOMAIN answers : answers[i].answer = p}

\* C8: for every pull-path offer whose negotiation completed, exactly one
\* answer was posted, tagged with the session_id of that offer.
C8_AnswerExactlyOnce ==
    \A p \in Created :
        (offer_of[p].path = "pull" /\ localDescription[p])
            => /\ Cardinality(AnswersFor(p)) = 1
               /\ \A i \in AnswersFor(p) : answers[i].session_id = offer_of[p].session_id

\* C8 as amended: no answer is posted twice or with another session_id, and
\* one is posted unless the signaling client was stopped before send_answer
\* ran.
C8_AnswerOnceUnlessStopped ==
    \A p \in Created :
        (offer_of[p].path = "pull" /\ localDescription[p])
            => /\ \A i \in AnswersFor(p) : answers[i].session_id = offer_of[p].session_id
               /\ \/ Cardinality(AnswersFor(p)) = 1
                  \/ Cardinality(AnswersFor(p)) = 0 /\ ~client_session

\* C8 witness: the answers of two polled offers, one with a session_id and
\* one without, each posted once.
C8_Witness ==
    /\ Len(answers) = 2
    /\ answers[1].answer # answers[2].answer
    /\ answers[1].session_id # answers[2].session_id
    /\ client_session

\* C9: a 200 response of the push path carries the answer of the one session
\* its request created, and the request's session_id when it had one; the
\* request creates that session when it is accepted and no other later.
C9_PushAnswerInExchange ==
    /\ [](response.status = 200
            => /\ response.answer \in Created
               /\ localDescription[response.answer]
               /\ offer_of[response.answer] =
                      [path |-> "push", session_id |-> response.req_id]
               /\ response.req_id # NoId => response.session_id = response.req_id)
    /\ [][push' # push
            => IF push.pc = "idle"
               THEN /\ nextPc' = nextPc + 1
                    /\ pcs' = pcs \cup {nextPc}
                    /\ push'.p = nextPc
               ELSE /\ nextPc' = nextPc
                    /\ pcs' = pcs
                    /\ (response' # response /\ response'.status = 200)
                           => response'.answer = push.p]_vars

\* C9 witness: a request with session_id "s1" was answered with status 200
\* while the pull path had created a session of its own.
C9_Witness ==
    /\ response.status = 200
    /\ response.req_id = "s1"
    /\ \E p \in Created : offer_of[p].path = "pull"

\* The id a session is known by outside the node: the session_id of its
\* offer, "unknown" when the offer had none.
reported_id(p) ==
    IF offer_of[p].session_id = NoId THEN Unknown ELSE offer_of[p].session_id

\* C10: no two sessions share an id; stated for the sessions that are in the
\* registry together, Negotiating or Connected.
C10_SessionIdsUnique ==
    \A p \in LiveSessions, q \in LiveSessions : p # q => reported_id(p) # reported_id(q)

\* The negotiation of pc p raised: p was constructed, nobody is inside
\* handle_offer for it, and it never got a local description.
NegotiationRaised(p) ==
    /\ p \in Created
    /\ ~localDescription[p]
    /\ ~(Negotiating(push) /\ push.p = p)
    /\ ~(Negotiating(poll) /\ poll.p = p)

\* C11: a session whose negotiation raised is Failed or Closed, with its
\* transport released, and is no longer in the registry.
C11_FailedNegotiationCleansUp ==
    \A p \in PcIds :
        NegotiationRaised(p)
            => (p \notin pcs /\ connectionState[p] \in {"failed", "closed"})

\* C12: no call of recv ends with an exception: every frame taken from the
\* source track yields an output frame.
C12_FrameErrorsContained ==
    last.track # 0 => last.out.img.k # "raise"

\* The sessions of the registry in Connected state, counted one by one.
ConnectedSessions == {p \in Created : p \in pcs /\ connectionState[p] = "connected"}

\* C13: the active_sessions that GET /health returns, and the one the health
\* report carries, is the number of registered sessions in Connected state
\* at the moment it is computed.
C13_ActiveCountIsConnected ==
    [][/\ HealthCheck => health'.served = Cardinality(ConnectedSessions)
       /\ (HealthWake /\ orchestrator_url)
            => health'.active_sessions = Cardinality(ConnectedSessions)]_vars

\* C13 witness: a report counted the connected session; later, with the
\* session failed and still in the registry, GET /health returned 0.
C13_Witness ==
    /\ health.active_sessions = 1
    /\ health.served = 0
    /\ \E p \in pcs : connectionState[p] = "failed"

\* C14: a run of on_connectionstatechange removes at most its own pc, closed,
\* from the registry; for a pc already removed it is a no-op; no other
\* session changes.
C14_RemoveIdempotent ==
    [][\A p \in PcIds :
          (OnConnectionStateChange(p) \/ OnConnectionStateChangeResume(p))
              => /\ pcs' \subseteq pcs
                 /\ (pcs \ pcs') \subseteq {p}
                 /\ p \notin pcs => (pcs' = pcs /\ connectionState' = connectionState)
                 /\ (p \in pcs /\ p \notin pcs') => connectionState'[p] = "closed"
                 /\ \A q \in PcIds \ {p} : connectionState'[q] = connectionState[q]]_vars

\* C14 witness: both the 'failed' and the 'closed' callback of one pc have run
\* (the second found it removed) while another session is in the registry.
C14_Witness ==
    \E p \in Created :
        /\ phase = "running"
        /\ p \notin pcs
        /\ connectionState[p] = "closed"
        /\ cbPending[p] = 0
        /\ cbClosing[p] = 0
        /\ pcs # {}

\* C15: close_all does not raise when the sessions it found in the registry
\* had all been negotiated to the end: the loop over the registry is not cut
\* short by an exception.
C15_CloseAllNeverRaises ==
    phase = "aborted" => \E p \in closer.init : ~localDescription[p]

\* C16: a frame in which the detector, run because no source face is stored,
\* finds no face is returned with the content of the normalized input, no swap
\* is invoked, and the source face is still unset.
C16_NoFaceFrameUnchanged ==
    (last.track # 0 /\ last.detect = 1 /\ last.found = 0 /\ last.out.img.k # "raise")
        => /\ last.swap = "skipped"
           /\ last.out.img = preprocess_frame(to_ndarray(last.frame))
           /\ tracks[last.track].source_face = NoFace

\* C16 witness: the second frame of a track in a row without a face, the
\* frame holding samples at the top of the range.
C16_Witness ==
    /\ last.track # 0
    /\ last.detect = 1
    /\ last.found = 0
    /\ last.swap = "skipped"
    /\ last.frame.px = 255
    /\ tracks[last.track].frame_count >= 2

\* C17: every frame a track has taken from its source has yielded one output
\* frame, and the output produced last was made from the input taken last.
C17_OneOutputPerInput ==
    /\ \A t \in TrackIds : tracks[t].frame_count = tracks[t].taken
    /\ last.track # 0 => last.out.pts = last.frame.pts

\* The edges the session state machine is given: Negotiating ("new"),
\* Connected, Failed, Closed.
SpecEdges ==
    {<<"new", "connected">>, <<"connected", "closed">>,
     <<"new", "failed">>, <<"connected", "failed">>}

\* C18: the state of a session changes along these four edges only, and a
\* session removed from the registry is never added to it again.
C18_OnlySpecEdges ==
    [][\A p \in Created :
          /\ connectionState'[p] # connectionState[p]
                => <<connectionState[p], connectionState'[p]>> \in SpecEdges
          /\ p \notin pcs => p \notin pcs']_vars

\* C18 as amended: besides the four edges a session goes from Negotiating to
\* Closed (the node shuts down before it connects) and from Failed to Closed
\* (the transport of a failed session is released); none of these leads back
\* to Negotiating or Connected, and a removed session is never added again.
C18_EdgesWithRelease ==
    [][\A p \in Created :
          /\ connectionState'[p] # connectionState[p]
                => <<connectionState[p], connectionState'[p]>>
                       \in SpecEdges \cup {<<"new", "closed">>, <<"failed", "closed">>}
          /\ p \notin pcs => p \notin pcs']_vars

\* C18 witness: the node is down; one session was closed while it was still
\* Negotiating and another one after its transport had been negotiated.
C18_Witness ==
    /\ phase = "down"
    /\ \E p \in Created, q \in Created :
          /\ connectionState[p] = "closed" /\ ~localDescription[p]
          /\ connectionState[q] = "closed" /\ localDescription[q]

\* C19: a session of the registry whose transport is failed or closed is
\* eventually removed from the registry.
C19_TerminalSessionsRemoved ==
    \A p \in PcIds :
        (p \in pcs /\ connectionState[p] \in {"failed", "closed"}) ~> (p \notin pcs)

\* C19 witness: while the node is running, a session whose transport failed
\* after negotiation has been closed and removed by its handlers.
C19_Witness ==
    /\ phase = "running"
    /\ \E p \in Created :
          /\ localDescription[p]
          /\ connectionState[p] = "closed"
          /\ p \notin pcs
          /\ cbClosing[p] = 0

\* A cycle of signaling_polling_task ends in this step without a session
\* negotiated: receive_offer gives nothing, a negotiation call raises, or
\* send_answer's POST ends, failed or not.
PollFailure == PollNothing \/ PollNegotiate(FALSE) \/ PollSent

\* C20: a failed cycle changes no session and leaves the task at the top of
\* its loop; the task is back there again and again, and with an orchestrator
\* configured it polls again and again.
C20_PollLoopNeverStops ==
    /\ [][PollFailure => /\ poll'.pc = "sleep"
                         /\ pcs' = pcs
                         /\ connectionState' = connectionState]_vars
    /\ []<>(poll.pc = "sleep")
    /\ []<>(~orchestrator_url \/ poll.pc = "receive")

\* C20 witness: the task polls again after a cycle in which the negotiation
\* of a polled offer raised, and after one in which an answer was posted.
C20_Witness ==
    /\ poll.pc = "receive"
    /\ Len(answers) = 1
    /\ \E p \in Created : NegotiationRaised(p)

\* C21: a health report whose dispatch fails changes no session and not the
\* registry, and leaves the task in its sleep; the report built after it
\* carries the number of connected sessions of that moment, not the one of
\* the failed report; and with an orchestrator configured the task is
\* dispatching a report again and again.
C21_FailedReportDropped ==
    /\ [][HealthSent(FALSE) => /\ health'.pc = "sleep"
                               /\ pcs' = pcs
                               /\ connectionState' = connectionState
                               /\ cbPending' = cbPending]_vars
    /\ [][(HealthWake /\ orchestrator_url /\ health.result = "failed")
            => health'.active_sessions = Cardinality(ConnectedSessions)]_vars
    /\ [](health.pc # "stopped")
    /\ []<>(~orchestrator_url \/ health.pc = "post")

\* C21 witness: after a report of no session failed, a report of one
\* connected session is being dispatched.
C21_Witness ==
    /\ health.pc = "post"
    /\ health.result = "failed"
    /\ health.prev = 0
    /\ health.active_sessions = 1

\* C22: registration is attempted once, at startup, and never again; when it
\* failed the node is running with both background tasks started, and an
\* offer of either path is admitted and negotiated to its answer as after a
\* registration that succeeded.
C22_RegistrationBestEffort ==
    /\ [][registered' # registered => (phase = "starting" /\ registered = "no")]_vars
    /\ [](registered = "failed"
            => (phase = "running" /\ poll.pc # "unstarted" /\ health.pc # "unstarted"))
    /\ [][registered = "failed"
            => /\ \A d \in OfferData :
                     ((PushOffer(d) \/ PollOffer(d)) /\ d.offer) => pcs' = pcs \cup {nextPc}
               /\ (PushNegotiate(TRUE) /\ push.pc = "setLocal")
                     => (response'.status = 200 /\ response'.answer = push.p)
               /\ (PollNegotiate(TRUE) /\ poll.pc = "setLocal")
                     => answers' = Append(answers, answer_body(poll.p, poll.session_id))]_vars

\* C22 witness: registration failed, and since then an offer of the push path
\* was answered with status 200 and the answer of a polled offer was posted.
C22_Witness ==
    /\ registered = "failed"
    /\ response.status = 200
    /\ Len(answers) = 1
    /\ answers[1].answer # response.answer

\* The place, in the detector's output, of the face with the highest score that
\* comes first among those with that score.
best(faces) ==
    CHOOSE i \in 1..Len(faces) :
        /\ \A j \in 1..Len(faces) : faces[j].det_score <= faces[i].det_score
        /\ \A j \in 1..(i - 1) : faces[j].det_score < faces[i].det_score

\* C23: after a frame on which the detector ran for capture and returned
\* faces, the source face stored is the one with the highest det_score, the
\* first of them in the detector's output when several have it.
C23_HighestScoreCaptured ==
    (last.track # 0 /\ last.detect = 1 /\ last.faces # <<>>)
        => tracks[last.track].source_face = last.faces[best(last.faces)]

\* C24: a frame taken by a track whose source face is unset runs the detector
\* once for capture; the source face stays unset when no face is returned and
\* is one of the returned faces otherwise; a frame taken once the source face
\* is set does not run the detector for capture.
C24_CaptureRetriedUntilFound ==
    [][\A t \in TrackIds :
          tracks'[t].taken # tracks[t].taken
              => /\ last'.track = t
                 /\ IF tracks[t].source_face = NoFace
                    THEN /\ last'.detect = 1
                         /\ last'.faces = <<>> => tracks'[t].source_face = NoFace
                         /\ last'.faces # <<>>
                               => \E i \in 1..Len(last'.faces) :
                                      tracks'[t].source_face = last'.faces[i]
                    ELSE /\ last'.detect = 0
                         /\ tracks'[t].source_face = tracks[t].source_face]_vars

\* C24 witness: capture succeeded on the third frame of a track, after two
\* frames in which the detector found nothing.
C24_Witness ==
    /\ last.track # 0
    /\ last.detect = 1
    /\ last.faces # <<>>
    /\ tracks[last.track].source_face # NoFace
    /\ tracks[last.track].frame_count = MaxFrames
    /\ tracks[last.track].taken = MaxFrames

\* The ProcessedVideoTrack objects made for pc p.
PipelinesOf(p) == {t \in 1..(nextTrack - 1) : tracks[t].pc = p}

\* C25: a session has at most one frame pipeline, hence one source face and
\* one frame counter, however many tracks its connection announced.
C25_OnePipelinePerSession ==
    \A p \in PcIds : Cardinality(PipelinesOf(p)) <= 1

\* C26: a push-path request without an offer is answered with status 400, one
\* that arrives while there is no WebRTC server with status 503, and neither
\* creates a session or changes the registry.
C26_RejectedRequests ==
    [][\A d \in OfferData :
          (PushOffer(d) /\ ((~webrtc_server) \/ ~d.offer))
              => /\ response'.status = IF ~webrtc_server THEN 503 ELSE 400
                 /\ pcs' = pcs
                 /\ nextPc' = nextPc
                 /\ connectionState' = connectionState]_vars

\* The client has no orchestrator URL, has not been started, or has been
\* stopped.
ClientUnavailable == (~orchestrator_url) \/ phase = "starting" \/ phase = "down"

\* C27: a method called on a client without URL, not started or stopped
\* returns its failure value (None for receive_offer, False otherwise) and
\* issues no request, also when a background task calls it; once stop() has
\* returned there is no HTTP session, and a further stop() changes nothing.
C27_UnavailableClientFailsQuietly ==
    /\ [][ClientUnavailable
            => /\ \A m \in Methods :
                     ClientCall(m) => (call'.result = failure_value(m) /\ ~call'.requested)
               /\ PollWake => poll'.pc = "sleep"
               /\ HealthWake => health'.pc = "sleep"]_vars
    /\ [](phase = "down" => ~client_session)
    /\ [][ClientStop => (phase' = phase /\ client_session' = client_session)]_vars

\* C27 witness: after stop() had returned on a registered client with an
\* orchestrator URL, send_answer was called and returned False at once.
C27_Witness ==
    /\ orchestrator_url
    /\ phase = "down"
    /\ call = [method |-> "send_answer", at |-> "down", requested |-> FALSE,
               result |-> "False"]
    /\ registered = "ok"

====
